---------------------------- MODULE Spec2Model ----------------------------
(***************************************************************************)
(* StreetSafe dashboard: the bus proximity state machine, the safety       *)
(* classifier, the bounded event log, the audible-alert effect and the     *)
(* scenario player of DashboardComponent, with SettingsService, the        *)
(* settings form, the insight assistant and the feedback form.             *)
(*                                                                         *)
(* One action is one browser task: a timer callback or a user-interface    *)
(* handler, followed by the flush of the signal effects it made dirty.     *)
(***************************************************************************)
EXTENDS Integers, Sequences, FiniteSets, TLC

VARIABLES
    buses,                 \* DashboardComponent.buses: the three Bus objects
    selectedBus,           \* index into buses of selectedBus(), 0 for null
    settings,              \* SettingsService.settings()
    isAudioUnlocked,       \* DashboardComponent.isAudioUnlocked
    simulationInterval,    \* which setInterval handle is held: none/realtime/scenario
    activeTimers,          \* per kind of interval: setInterval timers not yet cleared
    isSimulationRunning,
    simulationScenario,    \* the scenario's event list, or NoScenario
    scenarioEventIndex,    \* 0-based read pointer, as in the source
    simulationTime,
    simulationUserActions,
    simulationReport,
    pendingRestart,        \* the 1000 ms setTimeout of stopSimulationAndShowReport is pending
    destroyed,             \* ngOnDestroy has run
    now,                   \* wall clock read by new Date(), one unit per timer callback
    effectStatus,          \* the value `status` of the last run of the alert effect
    alertPlays,            \* alertAudio.play() calls made by the last task
    dangerAlerts,          \* play() calls since the effect last saw a non-danger status
    mutedInDanger,         \* sound was switched off during the current danger period
    stopEntries,           \* per bus: entries logged during its current stop
    stopAlerts,            \* per bus: PROXIMITY_ALERT events applied while already stopped
    lastOp,                \* the task that ran last: a timer callback by name, a
                           \* scenario start, teardown, unlockAudio, a handler or
                           \* completion named below, or another user event
    settingsForm,          \* SettingsModalComponent.settingsForm(), NoForm while closed
    assistant,             \* AiAssistantComponent: messages (their number), isLoading,
                           \* error, analysisTimer (ms left as of the last interval
                           \* callback, NoTimer when none is pending)
    feedback,              \* the feedback form of DashboardComponent: feedbackMessage,
                           \* isSubmittingFeedback, analysisResult, analysisError
    pendingCalls,          \* calls awaited: generateDispatchInsight promises, and the
                           \* analyzeFeedback promise or the 500 ms reset of the form
    burstRequests          \* insight requests the debounce timer started since an
                           \* event log last changed

busVars   == <<buses, selectedBus, stopEntries, stopAlerts>>
simVars   == <<simulationInterval, activeTimers, isSimulationRunning, simulationScenario,
               scenarioEventIndex, simulationTime, simulationUserActions,
               simulationReport, pendingRestart>>
vars      == <<buses, selectedBus, settings, isAudioUnlocked, simulationInterval,
               activeTimers,
               isSimulationRunning, simulationScenario, scenarioEventIndex,
               simulationTime, simulationUserActions, simulationReport,
               pendingRestart, destroyed, now, effectStatus, alertPlays,
               dangerAlerts, mutedInDanger, stopEntries, stopAlerts, lastOp,
               settingsForm, assistant, feedback, pendingCalls, burstRequests>>
sideVars  == <<settingsForm, assistant, feedback, pendingCalls, burstRequests>>

-----------------------------------------------------------------------------
(* Bounds of the model *)

MaxTime == 8            \* timer callbacks explored
MaxDangerAlerts == 2    \* play() calls counted within one danger period

MaxDistance == 36       \* distances 1..MaxDistance of the classifier check
MaxUserActions == 2     \* user actions recorded within one scenario
MaxInsights == 2        \* insight messages received by the assistant
MaxInFlight == 2        \* generateDispatchInsight calls awaited at once

(* Program constants *)

MAX_LOG_ENTRIES == 5
REALTIME_SIMULATION_INTERVAL_MS == 2000
SCENARIO_SIMULATION_INTERVAL_MS == 1500
RESTART_DELAY_MS == 1000
\* AiAssistantComponent: the debounce delay and the length the message list is cut to
DEBOUNCE_MS == 5000
MAX_MESSAGES == 10

\* mutant: the restart is delayed by 2000 ms
RestartFiresBefore_slow(intervalMs) == 2 * RESTART_DELAY_MS < intervalMs

\* a setTimeout(RESTART_DELAY_MS) that is pending when a setInterval of the
\* given period is started fires before the first callback of the interval
RestartFiresBefore(intervalMs) == RESTART_DELAY_MS < intervalMs

BusIds == 1..3
BusStatus == {"en-ruta", "llegando", "detenido", "saliendo"}

\* Math.floor(Math.random() * 10 + 5)
EnRutaTimers == 5..14
\* 5 + Math.random() * 40 lies in [5, 45); the values of the end-to-end example
DistanceDraws == {10, 28, 35}

DEFAULTS == [cautionThreshold |-> 15, dangerThreshold |-> 30, soundAlertsEnabled |-> TRUE]

\* what the settings form can emit: threshold pairs with caution < danger
ThresholdInputs == {<<15, 30>>, <<5, 20>>}
SettingsInputs ==
    {[cautionThreshold |-> p[1], dangerThreshold |-> p[2], soundAlertsEnabled |-> s] :
        p \in ThresholdInputs, s \in BOOLEAN}

\* simulationScenario() === null: an event list no scenario can have
NoScenario == <<[type |-> "null"]>>
\* simulationReport() === null
NoReport == [scenario |-> NoScenario, actions |-> <<>>]

\* SimulationEvent; an absent payload field is absent from the record
StatusChange(t, id, newStatus) ==
    [time |-> t, busId |-> id, type |-> "STATUS_CHANGE",
     payload |-> [newStatus |-> newStatus]]
ProximityAlert(t, id, distance) ==
    [time |-> t, busId |-> id, type |-> "PROXIMITY_ALERT",
     payload |-> [distance |-> distance]]

\* the event lists of the scenarios handed to startScenario
ScenarioUnknownBus ==
    <<StatusChange(0, 9, "detenido"), StatusChange(1, 2, "llegando")>>
ScenarioAlerts ==
    <<ProximityAlert(1, 1, 35), ProximityAlert(2, 1, 35), ProximityAlert(3, 1, 28),
      ProximityAlert(4, 1, 35), ProximityAlert(5, 1, 35), ProximityAlert(6, 1, 10)>>
ScenarioMixed ==
    <<StatusChange(1, 1, "en-ruta"), ProximityAlert(1, 2, 35),
      ProximityAlert(2, 3, 0), StatusChange(5, 1, "detenido")>>
ScenarioEmpty == <<>>
Scenarios == {ScenarioUnknownBus, ScenarioAlerts, ScenarioMixed, ScenarioEmpty}

\* UserActionType values passed to captureUserAction; the type is carried
\* into the entry unread, one value stands for the four
UserActionTypes == {"CHAT_QUERY"}

\* localStorage.getItem('streetsafe-settings'): no item, an item JSON.parse
\* rejects, or the fields of the parsed object
NoItem == [absent |-> TRUE]
Unparsable == [unparsable |-> TRUE]
StorageItems ==
    {NoItem, Unparsable,
     [cautionThreshold |-> 5, dangerThreshold |-> 20, soundAlertsEnabled |-> FALSE],
     [cautionThreshold |-> 40],
     [cautionThreshold |-> 30, dangerThreshold |-> 30, soundAlertsEnabled |-> TRUE],
     [dangerThreshold |-> 10]}

\* parseInt of what is typed into a threshold input
ThresholdEntries == {15, 30, 40}

\* settingsForm() of a settings modal that is not open
NoForm == [open |-> FALSE]

\* null in error(), analysisError() and analysisResult()
NoError == "null"
NoResult == "null"
\* analysisTimer when no timeout is pending
NoTimer == -1
\* ms between the last interval callback and a task that is not one
CallbackOffsets == {0, 500, 1500}
\* what a generateDispatchInsight promise settles with
InsightOutcomes == {"insight", "none", "error"}
\* values of the feedback textarea
FeedbackTexts == {"", "text"}

Take(s, n) == SubSeq(s, 1, IF Len(s) < n THEN Len(s) ELSE n)
Min(a, b) == IF a < b THEN a ELSE b
Max(a, b) == IF a > b THEN a ELSE b

-----------------------------------------------------------------------------
(* Pure functions of the dashboard *)

\* safetyStatus for a given selected bus (NoBus for null) and settings
NoBus == [id |-> 0]

\* mutant: the band limits compared with < instead of <=
safetyStatusOf_strict(bus, st) ==
    IF bus = NoBus \/ bus.status # "detenido" THEN "none"
    ELSE IF bus.curbDistanceCm < st.cautionThreshold THEN "safe"
    ELSE IF bus.curbDistanceCm < st.dangerThreshold THEN "caution"
    ELSE "danger"

\* mutant: the classification is sticky, it does not look at the status
safetyStatusOf_sticky(bus, st) ==
    IF bus = NoBus THEN "none"
    ELSE IF bus.curbDistanceCm <= st.cautionThreshold THEN "safe"
    ELSE IF bus.curbDistanceCm <= st.dangerThreshold THEN "caution"
    ELSE "danger"

safetyStatusOf(bus, st) ==
    IF bus = NoBus \/ bus.status # "detenido" THEN "none"
    ELSE IF bus.curbDistanceCm <= st.cautionThreshold THEN "safe"
    ELSE IF bus.curbDistanceCm <= st.dangerThreshold THEN "caution"
    ELSE "danger"

\* mutant: the classification looks at every bus, the worst one counts
safetyStatus_anyBus(bs, sel, st) ==
    IF \E i \in DOMAIN bs : safetyStatusOf(bs[i], st) = "danger" THEN "danger"
    ELSE safetyStatusOf(IF sel = 0 THEN NoBus ELSE bs[sel], st)

safetyStatus(bs, sel, st) ==
    safetyStatusOf(IF sel = 0 THEN NoBus ELSE bs[sel], st)

\* mutant: the log keeps its last entries, newLog.slice(-MAX_LOG_ENTRIES)
logProximityEvent_keepsOldest(bus, st, t) ==
    LET distance == bus.curbDistanceCm
        level == IF distance > st.dangerThreshold THEN "danger"
                 ELSE IF distance > st.cautionThreshold THEN "caution"
                 ELSE "null"
        newEvent == [timestamp |-> t, level |-> level, message |-> distance]
        newLog == <<newEvent>> \o bus.eventLog
    IN  IF level # "null"
        THEN [bus EXCEPT !.eventLog =
                 IF Len(newLog) <= MAX_LOG_ENTRIES THEN newLog
                 ELSE SubSeq(newLog, Len(newLog) - MAX_LOG_ENTRIES + 1, Len(newLog))]
        ELSE bus

\* mutant: every reading that is not danger is logged as caution
logProximityEvent_logsSafe(bus, st, t) ==
    LET distance == bus.curbDistanceCm
        level == IF distance > st.dangerThreshold THEN "danger"
                 ELSE "caution"
        newEvent == [timestamp |-> t, level |-> level, message |-> distance]
    IN  IF level # "null"
        THEN [bus EXCEPT !.eventLog = Take(<<newEvent>> \o @, MAX_LOG_ENTRIES)]
        ELSE bus

\* logProximityEvent(bus), t the value of new Date()
logProximityEvent(bus, st, t) ==
    LET distance == bus.curbDistanceCm
        level == IF distance > st.dangerThreshold THEN "danger"
                 ELSE IF distance > st.cautionThreshold THEN "caution"
                 ELSE "null"
        newEvent == [timestamp |-> t, level |-> level, message |-> distance]
    IN  IF level # "null"
        THEN [bus EXCEPT !.eventLog = Take(<<newEvent>> \o @, MAX_LOG_ENTRIES)]
        ELSE bus

\* mutant: the stop lasts 4 ticks and the timer of a bus en route runs twice as fast
updateBus_timers(bus, st, t, timerDraw, distDraw) ==
    LET dec == [bus EXCEPT !.stateTimer = @ - (IF bus.status = "en-ruta" THEN 2 ELSE 1)]
    IN  IF dec.stateTimer <= 0
        THEN CASE dec.status = "detenido" ->
                    [dec EXCEPT !.status = "saliendo", !.stateTimer = 3,
                                !.curbDistanceCm = 0]
               [] dec.status = "saliendo" ->
                    [dec EXCEPT !.status = "en-ruta", !.stateTimer = timerDraw]
               [] dec.status = "en-ruta" ->
                    [dec EXCEPT !.status = "llegando", !.stateTimer = 4]
               [] dec.status = "llegando" ->
                    logProximityEvent(
                        [dec EXCEPT !.status = "detenido", !.stateTimer = 4,
                                    !.curbDistanceCm = distDraw], st, t)
        ELSE dec

\* mutant: a status is left one tick late, when the timer has gone below 0
updateBus_late(bus, st, t, timerDraw, distDraw) ==
    LET dec == [bus EXCEPT !.stateTimer = @ - 1]
    IN  IF dec.stateTimer < 0
        THEN CASE dec.status = "detenido" ->
                    [dec EXCEPT !.status = "saliendo", !.stateTimer = 3,
                                !.curbDistanceCm = 0]
               [] dec.status = "saliendo" ->
                    [dec EXCEPT !.status = "en-ruta", !.stateTimer = timerDraw]
               [] dec.status = "en-ruta" ->
                    [dec EXCEPT !.status = "llegando", !.stateTimer = 4]
               [] dec.status = "llegando" ->
                    logProximityEvent(
                        [dec EXCEPT !.status = "detenido", !.stateTimer = 5,
                                    !.curbDistanceCm = distDraw], st, t)
        ELSE dec

\* mutant: a stopped bus is logged on every tick, not only on arrival
updateBus_relog(bus, st, t, timerDraw, distDraw) ==
    LET dec == [bus EXCEPT !.stateTimer = @ - 1]
    IN  IF dec.stateTimer <= 0
        THEN CASE dec.status = "detenido" ->
                    [dec EXCEPT !.status = "saliendo", !.stateTimer = 3,
                                !.curbDistanceCm = 0]
               [] dec.status = "saliendo" ->
                    [dec EXCEPT !.status = "en-ruta", !.stateTimer = timerDraw]
               [] dec.status = "en-ruta" ->
                    [dec EXCEPT !.status = "llegando", !.stateTimer = 4]
               [] dec.status = "llegando" ->
                    logProximityEvent(
                        [dec EXCEPT !.status = "detenido", !.stateTimer = 5,
                                    !.curbDistanceCm = distDraw], st, t)
        ELSE IF dec.status = "detenido" THEN logProximityEvent(dec, st, t) ELSE dec

\* the body of the forEach of updateBusStatesRandomly for one bus, with the
\* two Math.random() results it may consume given as timerDraw and distDraw
updateBus(bus, st, t, timerDraw, distDraw) ==
    LET dec == [bus EXCEPT !.stateTimer = @ - 1]
    IN  IF dec.stateTimer <= 0
        THEN CASE dec.status = "detenido" ->
                    [dec EXCEPT !.status = "saliendo", !.stateTimer = 3,
                                !.curbDistanceCm = 0]
               [] dec.status = "saliendo" ->
                    [dec EXCEPT !.status = "en-ruta", !.stateTimer = timerDraw]
               [] dec.status = "en-ruta" ->
                    [dec EXCEPT !.status = "llegando", !.stateTimer = 4]
               [] dec.status = "llegando" ->
                    logProximityEvent(
                        [dec EXCEPT !.status = "detenido", !.stateTimer = 5,
                                    !.curbDistanceCm = distDraw], st, t)
        ELSE dec

updateBusOutcomes(bus, st, t) ==
    {updateBus(bus, st, t, td, dd) : td \in EnRutaTimers, dd \in DistanceDraws}

\* initializeBuses: the fresh bus list; bus 1 is stopped and is logged
initialBuses(st, t) ==
    LET b1 == [id |-> 1, status |-> "detenido", curbDistanceCm |-> 28,
               stateTimer |-> 5, eventLog |-> <<>>]
        b2 == [id |-> 2, status |-> "en-ruta", curbDistanceCm |-> 0,
               stateTimer |-> 8, eventLog |-> <<>>]
        b3 == [id |-> 3, status |-> "llegando", curbDistanceCm |-> 0,
               stateTimer |-> 3, eventLog |-> <<>>]
        logged(b) == IF b.status = "detenido" THEN logProximityEvent(b, st, t) ELSE b
    IN  <<logged(b1), logged(b2), logged(b3)>>

\* mutant: an unknown busId falls back to the last bus of the list
FindBus_fallback(bs, busId) ==
    LET hits == {i \in DOMAIN bs : bs[i].id = busId}
    IN  IF hits = {} THEN Len(bs) ELSE CHOOSE i \in hits : \A j \in hits : i <= j

\* buses().find(b => b.id === busId): the index of the first match, 0 if none
FindBus(bs, busId) ==
    LET hits == {i \in DOMAIN bs : bs[i].id = busId}
    IN  IF hits = {} THEN 0 ELSE CHOOSE i \in hits : \A j \in hits : i <= j

\* upcomingEvent.type === 'STATUS_CHANGE' && upcomingEvent.payload.newStatus
StatusChangeApplies(ev) ==
    /\ ev.type = "STATUS_CHANGE"
    /\ "newStatus" \in DOMAIN ev.payload
    /\ ev.payload.newStatus # ""

\* upcomingEvent.type === 'PROXIMITY_ALERT' && upcomingEvent.payload.distance
\* (a distance of 0 is falsy)
ProximityAlertApplies(ev) ==
    /\ ev.type = "PROXIMITY_ALERT"
    /\ "distance" \in DOMAIN ev.payload
    /\ ev.payload.distance # 0

\* mutant: a STATUS_CHANGE goes through the transition table: it is applied
\* only along an edge of the cycle, and the timer of the new status is set
applyEvent_cycle(bus, ev, st, t) ==
    IF StatusChangeApplies(ev)
    THEN IF <<bus.status, ev.payload.newStatus>> \in
                {<<"en-ruta", "llegando">>, <<"llegando", "detenido">>,
                 <<"detenido", "saliendo">>, <<"saliendo", "en-ruta">>}
         THEN [bus EXCEPT !.status = ev.payload.newStatus, !.stateTimer = 3]
         ELSE bus
    ELSE IF ProximityAlertApplies(ev)
    THEN logProximityEvent(
             [bus EXCEPT !.curbDistanceCm = ev.payload.distance,
                         !.status = "detenido"], st, t)
    ELSE bus

\* the branch of runScenarioStep that applies a due event to the bus found
applyEvent(bus, ev, st, t) ==
    IF StatusChangeApplies(ev)
    THEN [bus EXCEPT !.status = ev.payload.newStatus]
    ELSE IF ProximityAlertApplies(ev)
    THEN logProximityEvent(
             [bus EXCEPT !.curbDistanceCm = ev.payload.distance,
                         !.status = "detenido"], st, t)
    ELSE bus

\* the interval timers of a dashboard that scheduled none
NoTimers == [realtime |-> 0, scenario |-> 0]

\* mutant: the handle is dropped without clearInterval
stopSimulation_keepsTimer(handle, timers) == <<"none", timers>>

\* stopSimulation: <<simulationInterval, activeTimers>> after the call;
\* clearInterval cancels the timer whose handle the field holds
stopSimulation(handle, timers) ==
    IF handle # "none"
    THEN <<"none", [timers EXCEPT ![handle] = @ - 1]>>
    ELSE <<handle, timers>>

\* mutant: the random simulator is started without looking at the handle
startRealtimeSimulation_unguarded(handle, timers) ==
    <<"realtime", [timers EXCEPT !.realtime = @ + 1]>>

\* startRealtimeSimulation: <<simulationInterval, activeTimers>> after the call
startRealtimeSimulation(handle, timers) ==
    IF handle # "none" THEN <<handle, timers>>
    ELSE <<"realtime", [timers EXCEPT !.realtime = @ + 1]>>

\* the setInterval of startScenario, which follows its stopSimulation()
startScenarioInterval(handle, timers) ==
    LET stopped == stopSimulation(handle, timers)
    IN  <<"scenario", [stopped[2] EXCEPT !.scenario = @ + 1]>>

\* mutant: an event is taken one tick before its time
EventDue_early(events, index, clock) ==
    /\ index < Len(events)
    /\ clock + 1 >= events[index + 1].time

\* upcomingEvent && this.simulationTime() >= upcomingEvent.time, index the
\* 0-based scenarioEventIndex and clock the incremented simulationTime
EventDue(events, index, clock) ==
    /\ index < Len(events)
    /\ clock >= events[index + 1].time

\* mutant: the scenario is ended when the pointer reaches the last event
AllEventsProcessed_early(events, index) == index >= Len(events) - 1

\* this.scenarioEventIndex >= scenario.events.length
AllEventsProcessed(events, index) == index >= Len(events)

\* captureUserAction: the value left in simulationUserActions, running the
\* value of isSimulationRunning() and clock that of simulationTime()
captureUserAction(running, actions, type, clock) ==
    IF ~running THEN actions
    ELSE Append(actions, [type |-> type, timestamp |-> clock])

\* SettingsService.saveSettings: the value left in the settings signal
\* (storageOk is FALSE when localStorage.setItem throws)
saveSettings(old, newSettings, storageOk) ==
    LET repaired == IF newSettings.dangerThreshold <= newSettings.cautionThreshold
                    THEN [newSettings EXCEPT !.dangerThreshold =
                                                 newSettings.cautionThreshold + 1]
                    ELSE newSettings
    IN  IF storageOk THEN repaired ELSE old

\* SettingsService.loadSettingsFromStorage: { ...DEFAULTS, ...parsed }
loadSettingsFromStorage(item) ==
    LET field(f) == IF f \in DOMAIN item THEN item[f] ELSE DEFAULTS[f]
    IN  IF item = NoItem \/ item = Unparsable THEN DEFAULTS
        ELSE [cautionThreshold |-> field("cautionThreshold"),
              dangerThreshold |-> field("dangerThreshold"),
              soundAlertsEnabled |-> field("soundAlertsEnabled")]

\* SettingsModalComponent.updateCautionThreshold
updateCautionThreshold(form, value) ==
    [form EXCEPT !.cautionThreshold = value,
                 !.dangerThreshold = Max(value + 1, form.dangerThreshold)]

\* SettingsModalComponent.updateDangerThreshold
updateDangerThreshold(form, value) ==
    [form EXCEPT !.dangerThreshold = value,
                 !.cautionThreshold = Min(value - 1, form.cautionThreshold)]

\* SettingsModalComponent.toggleSoundAlerts
toggleSoundAlerts(form) ==
    [form EXCEPT !.soundAlertsEnabled = ~form.soundAlertsEnabled]

\* the debounce effect of AiAssistantComponent: the value left in
\* analysisTimer. timer: the ms left of the pending timeout; dirty: a signal
\* the effect has read (buses(), an eventLog(), messages()) has changed;
\* offset: ms since the last interval callback
debounceEffect(timer, messages, dirty, offset) ==
    \* `let isFirstRun = true` is declared inside the effect function: every
    \* run starts with a fresh variable, the cleanup of the previous run
    \* wrote into the previous run's variable
    LET isFirstRun == TRUE
    IN  IF ~dirty THEN timer
        \* the cleanup of a run that set a timeout has cleared it
        ELSE IF isFirstRun /\ messages = 0 THEN NoTimer
        ELSE DEBOUNCE_MS + offset

\* mutant: runAnalysis without its test of isLoading
runAnalysis_unguarded(a, calls) ==
    [assistant |-> [a EXCEPT !.isLoading = TRUE, !.error = NoError],
     calls |-> calls + 1, started |-> TRUE]

\* runAnalysis up to its await: the component, the generateDispatchInsight
\* calls awaited, and whether this call has made one
runAnalysis(a, calls) ==
    IF a.isLoading THEN [assistant |-> a, calls |-> calls, started |-> FALSE]
    ELSE [assistant |-> [a EXCEPT !.isLoading = TRUE, !.error = NoError],
          calls |-> calls + 1, started |-> TRUE]

\* runAnalysis after its await: try, catch and finally
insightSettled(a, outcome) ==
    [a EXCEPT !.messages = IF outcome = "insight" THEN Min(@ + 1, MAX_MESSAGES) ELSE @,
              !.isLoading = FALSE]

\* isFeedbackFormValid, no image selected
isFeedbackFormValid(f) == f.feedbackMessage # ""

\* mutant: the alert effect fires only when it knows an earlier non-danger status
alertEffectFires_needsPrevious(unlocked, soundEnabled, status, previousStatus) ==
    unlocked /\ soundEnabled /\ status = "danger"
             /\ previousStatus \in {"safe", "caution", "none"}

\* mutant: the effect does not look at the soundAlertsEnabled setting
alertEffectFires_ignoresSetting(unlocked, soundEnabled, status, previousStatus) ==
    unlocked /\ status = "danger" /\ previousStatus # "danger"

\* the condition under which the alert effect calls alertAudio.play()
alertEffectFires(unlocked, soundEnabled, status, previousStatus) ==
    unlocked /\ soundEnabled /\ status = "danger" /\ previousStatus # "danger"

\* the condition under which unlockAudio itself calls alertAudio.play()
unlockAudioFires(soundEnabled, status) ==
    soundEnabled /\ status = "danger"

\* mutant: unlockAudio without its test of the latch
unlockAudio_everyCall(unlocked, soundEnabled, status) ==
    [unlocked |-> TRUE,
     plays |-> IF unlockAudioFires(soundEnabled, status) THEN 1 ELSE 0]

\* unlockAudio: the latch after the call and the play() calls it makes
unlockAudio(unlocked, soundEnabled, status) ==
    IF unlocked THEN [unlocked |-> unlocked, plays |-> 0]
    ELSE [unlocked |-> TRUE,
          plays |-> IF unlockAudioFires(soundEnabled, status) THEN 1 ELSE 0]

-----------------------------------------------------------------------------
(* The alert effect, flushed at the end of the task that made it dirty.     *)
(* settingsSet: the task called settings.set(); direct: play() calls made   *)
(* by the handler itself.                                                   *)

RunEffect(settingsSet, direct) ==
    LET status == safetyStatus(buses', selectedBus', settings')
        dirty == \/ status # effectStatus
                 \/ settingsSet
                 \/ isAudioUnlocked' # isAudioUnlocked
        \* `let previousStatus` is declared inside the effect function: every
        \* run starts with a fresh, unassigned variable; the cleanup of the
        \* previous run wrote into the previous run's variable
        previousStatus == "undefined"
        fires == dirty /\ alertEffectFires(isAudioUnlocked', settings'.soundAlertsEnabled,
                                           status, previousStatus)
        plays == direct + (IF fires THEN 1 ELSE 0)
    IN  IF destroyed'
        THEN /\ alertPlays' = 0
             /\ UNCHANGED <<effectStatus, dangerAlerts, mutedInDanger>>
        ELSE /\ effectStatus' = status
             /\ alertPlays' = plays
             /\ dangerAlerts' = IF status = "danger" THEN dangerAlerts + plays ELSE 0
             /\ dangerAlerts' <= MaxDangerAlerts
             /\ mutedInDanger' =
                    IF status # "danger" THEN FALSE
                    ELSE \/ mutedInDanger
                         \/ /\ effectStatus = "danger"
                            /\ settingsSet
                            /\ ~settings'.soundAlertsEnabled

-----------------------------------------------------------------------------
(* The debounce effect of the assistant, flushed at the end of a dashboard  *)
(* task. busesSet: the task called buses.set(); ms: the time the task's     *)
(* timer has let pass since the previous interval callback.                 *)

\* a pending debounce timeout fires before a timer callback due in ms
DebounceFiresBefore(ms) ==
    assistant.analysisTimer # NoTimer /\ assistant.analysisTimer < ms

AssistantEffect(busesSet, ms) ==
    LET dirty == busesSet \/ \E b \in BusIds : buses'[b].eventLog # buses[b].eventLog
        left == IF assistant.analysisTimer = NoTimer THEN NoTimer
                ELSE assistant.analysisTimer - ms
    IN  IF destroyed
        THEN UNCHANGED <<assistant, burstRequests>>
        ELSE /\ assistant' = [assistant EXCEPT !.analysisTimer =
                                 debounceEffect(left, assistant.messages, dirty, 0)]
             /\ burstRequests' = IF dirty THEN 0 ELSE burstRequests

\* the components of a dashboard on which no user has acted
SideInit ==
    /\ settingsForm = NoForm
    /\ assistant = [messages |-> 0, isLoading |-> FALSE, error |-> NoError,
                    analysisTimer |-> NoTimer]
    /\ feedback = [feedbackMessage |-> "", isSubmittingFeedback |-> FALSE,
                   analysisResult |-> NoResult, analysisError |-> NoError]
    /\ pendingCalls = [insight |-> 0, feedback |-> "none"]
    /\ burstRequests = 0

-----------------------------------------------------------------------------
(* Bookkeeping of stops (history variables)                                 *)

\* number of entries of a log stamped t
StampedAt(log, t) == Cardinality({i \in DOMAIN log : log[i].timestamp = t})

\* after initializeBuses every bus object is new
StopsAfterReset ==
    /\ stopEntries' = [b \in BusIds |-> Len(buses'[b].eventLog)]
    /\ stopAlerts' = [b \in BusIds |-> 0]

\* after a timer callback at time now'; alerted = the bus a PROXIMITY_ALERT
\* was applied to, 0 if none
StopsAfterStep(alerted) ==
    /\ stopEntries' = [b \in BusIds |->
          IF buses'[b].status # "detenido" THEN 0
          ELSE (IF buses[b].status = "detenido" THEN stopEntries[b] ELSE 0)
               + StampedAt(buses'[b].eventLog, now')]
    /\ stopAlerts' = [b \in BusIds |->
          IF buses'[b].status # "detenido" \/ buses[b].status # "detenido" THEN 0
          ELSE stopAlerts[b] + (IF alerted = b THEN 1 ELSE 0)]

-----------------------------------------------------------------------------
(* Initial state: constructor, SettingsService over a storage item,         *)
(* ngOnInit and the first run of the effects                                *)

InitLoaded(item) ==
    /\ settings = loadSettingsFromStorage(item)
    /\ now = 0
    /\ buses = initialBuses(loadSettingsFromStorage(item), 0)
    /\ selectedBus = 1
    /\ isAudioUnlocked = FALSE
    /\ simulationInterval = startRealtimeSimulation("none", NoTimers)[1]
    /\ activeTimers = startRealtimeSimulation("none", NoTimers)[2]
    /\ isSimulationRunning = FALSE
    /\ simulationScenario = NoScenario
    /\ scenarioEventIndex = 0
    /\ simulationTime = 0
    /\ simulationUserActions = <<>>
    /\ simulationReport = NoReport
    /\ pendingRestart = FALSE
    /\ destroyed = FALSE
    /\ effectStatus = safetyStatus(initialBuses(loadSettingsFromStorage(item), 0), 1,
                                   loadSettingsFromStorage(item))
    /\ alertPlays = 0
    /\ dangerAlerts = 0
    /\ mutedInDanger = FALSE
    /\ stopEntries = [b \in BusIds |->
                         Len(initialBuses(loadSettingsFromStorage(item), 0)[b].eventLog)]
    /\ stopAlerts = [b \in BusIds |-> 0]
    /\ lastOp = "ngOnInit"
    /\ SideInit

\* the dashboard over an empty storage
Init == InitLoaded(NoItem)

-----------------------------------------------------------------------------
(* Random simulator *)

\* the realtime setInterval callback: updateBusStatesRandomly
TickRandom ==
    /\ activeTimers.realtime > 0
    /\ pendingRestart => ~RestartFiresBefore(REALTIME_SIMULATION_INTERVAL_MS)
    /\ ~DebounceFiresBefore(REALTIME_SIMULATION_INTERVAL_MS)
    /\ now < MaxTime
    /\ now' = now + 1
    /\ \E o1 \in updateBusOutcomes(buses[1], settings, now + 1),
          o2 \in updateBusOutcomes(buses[2], settings, now + 1),
          o3 \in updateBusOutcomes(buses[3], settings, now + 1) :
            buses' = <<o1, o2, o3>>
    /\ StopsAfterStep(0)
    /\ UNCHANGED <<selectedBus, settings, isAudioUnlocked, simVars, destroyed>>
    /\ RunEffect(FALSE, 0)
    /\ AssistantEffect(FALSE, REALTIME_SIMULATION_INTERVAL_MS)
    /\ UNCHANGED <<settingsForm, feedback, pendingCalls>>
    /\ lastOp' = "tick"

(* User-interface handlers *)

SelectBus(b) ==
    /\ ~destroyed
    /\ selectedBus' = b
    /\ UNCHANGED <<buses, stopEntries, stopAlerts, settings, isAudioUnlocked,
                   simVars, destroyed, now, sideVars>>
    /\ RunEffect(FALSE, 0)
    /\ lastOp' = "userEvent"

UnlockAudio ==
    /\ ~destroyed
    /\ UNCHANGED <<busVars, settings, simVars, destroyed, now, sideVars>>
    /\ LET call == unlockAudio(isAudioUnlocked, settings.soundAlertsEnabled,
                               safetyStatus(buses, selectedBus, settings))
       IN  /\ isAudioUnlocked' = call.unlocked
           /\ RunEffect(FALSE, call.plays)
    /\ lastOp' = "unlockAudio"

\* handleSettingsSave, run for the handler op
SettingsSaved(newSettings, storageOk, op) ==
    /\ ~destroyed
    /\ settings' = saveSettings(settings, newSettings, storageOk)
    /\ settingsForm' = NoForm
    /\ UNCHANGED <<busVars, isAudioUnlocked, simVars, destroyed, now,
                   assistant, feedback, pendingCalls, burstRequests>>
    /\ RunEffect(storageOk, 0)
    /\ lastOp' = op

\* a settings modal that is opened, filled in and saved, as one user event
HandleSettingsSave(newSettings, storageOk) ==
    SettingsSaved(newSettings, storageOk, "userEvent")

\* the child components and their effects are destroyed with the dashboard
NgOnDestroy ==
    /\ ~destroyed
    /\ destroyed' = TRUE
    /\ settingsForm' = NoForm
    /\ assistant' = [assistant EXCEPT !.analysisTimer = NoTimer]
    /\ UNCHANGED <<feedback, pendingCalls, burstRequests>>
    /\ simulationInterval' = stopSimulation(simulationInterval, activeTimers)[1]
    /\ activeTimers' = stopSimulation(simulationInterval, activeTimers)[2]
    /\ UNCHANGED <<busVars, settings, isAudioUnlocked, isSimulationRunning,
                   simulationScenario, scenarioEventIndex, simulationTime,
                   simulationUserActions, simulationReport, pendingRestart, now>>
    /\ RunEffect(FALSE, 0)
    /\ lastOp' = "ngOnDestroy"

(* Scenario player *)

StartScenario(scenario) ==
    /\ ~destroyed
    /\ buses' = initialBuses(settings, now)
    /\ selectedBus' = 1
    /\ StopsAfterReset
    /\ simulationUserActions' = <<>>
    /\ scenarioEventIndex' = 0
    /\ simulationTime' = 0
    /\ simulationScenario' = scenario
    /\ isSimulationRunning' = TRUE
    /\ simulationInterval' = startScenarioInterval(simulationInterval, activeTimers)[1]
    /\ activeTimers' = startScenarioInterval(simulationInterval, activeTimers)[2]
    /\ UNCHANGED <<settings, isAudioUnlocked, simulationReport, pendingRestart,
                   destroyed, now>>
    /\ RunEffect(FALSE, 0)
    /\ AssistantEffect(TRUE, 0)
    /\ UNCHANGED <<settingsForm, feedback, pendingCalls>>
    /\ lastOp' = "startScenario"

\* the scenario setInterval callback: runScenarioStep, with
\* stopSimulationAndShowReport when the pointer has passed the last event
RunScenarioStep ==
    /\ activeTimers.scenario > 0
    /\ pendingRestart => ~RestartFiresBefore(SCENARIO_SIMULATION_INTERVAL_MS)
    /\ ~DebounceFiresBefore(SCENARIO_SIMULATION_INTERVAL_MS)
    /\ now < MaxTime
    /\ now' = now + 1
    /\ simulationTime' = simulationTime + 1
    /\ IF simulationScenario = NoScenario
       THEN /\ UNCHANGED <<buses, scenarioEventIndex, simulationInterval,
                           activeTimers, simulationReport, pendingRestart>>
            /\ StopsAfterStep(0)
       ELSE LET events == simulationScenario
                upcomingEvent == events[scenarioEventIndex + 1]
                due == EventDue(events, scenarioEventIndex, simulationTime')
                found == IF due THEN FindBus(buses, upcomingEvent.busId) ELSE 0
                index == IF due THEN scenarioEventIndex + 1 ELSE scenarioEventIndex
                ended == AllEventsProcessed(events, index)
            IN  /\ buses' = IF found # 0
                            THEN [buses EXCEPT ![found] =
                                     applyEvent(@, upcomingEvent, settings, now + 1)]
                            ELSE buses
                /\ StopsAfterStep(IF found # 0 /\ ~StatusChangeApplies(upcomingEvent)
                                     /\ ProximityAlertApplies(upcomingEvent)
                                  THEN found ELSE 0)
                /\ scenarioEventIndex' = index
                /\ simulationInterval' =
                       IF ended THEN stopSimulation(simulationInterval, activeTimers)[1]
                       ELSE simulationInterval
                /\ activeTimers' =
                       IF ended THEN stopSimulation(simulationInterval, activeTimers)[2]
                       ELSE activeTimers
                /\ simulationReport' =
                       IF ended THEN [scenario |-> simulationScenario,
                                      actions |-> simulationUserActions]
                       ELSE simulationReport
                /\ pendingRestart' = (ended \/ pendingRestart)
    /\ UNCHANGED <<selectedBus, settings, isAudioUnlocked, isSimulationRunning,
                   simulationScenario, simulationUserActions, destroyed>>
    /\ RunEffect(FALSE, 0)
    /\ AssistantEffect(FALSE, SCENARIO_SIMULATION_INTERVAL_MS)
    /\ UNCHANGED <<settingsForm, feedback, pendingCalls>>
    /\ lastOp' = "scenarioStep"

\* a handler that records a user action while it serves the user
CaptureUserAction(type) ==
    /\ ~destroyed
    /\ Len(simulationUserActions) < MaxUserActions
    /\ simulationUserActions' =
           captureUserAction(isSimulationRunning, simulationUserActions, type,
                             simulationTime)
    /\ UNCHANGED <<busVars, settings, isAudioUnlocked, simulationInterval,
                   activeTimers, isSimulationRunning, simulationScenario,
                   scenarioEventIndex, simulationTime, simulationReport,
                   pendingRestart, destroyed, now, sideVars>>
    /\ RunEffect(FALSE, 0)
    /\ lastOp' = "captureUserAction"

\* the setTimeout callback of stopSimulationAndShowReport; ngOnDestroy does
\* not cancel it
RestartTimeout ==
    /\ pendingRestart
    /\ ~DebounceFiresBefore(RESTART_DELAY_MS)
    /\ now < MaxTime
    /\ now' = now + 1
    /\ pendingRestart' = FALSE
    /\ isSimulationRunning' = FALSE
    /\ buses' = initialBuses(settings, now + 1)
    /\ selectedBus' = 1
    /\ StopsAfterReset
    /\ simulationInterval' = startRealtimeSimulation(simulationInterval, activeTimers)[1]
    /\ activeTimers' = startRealtimeSimulation(simulationInterval, activeTimers)[2]
    /\ UNCHANGED <<settings, isAudioUnlocked, simulationScenario, scenarioEventIndex,
                   simulationTime, simulationUserActions, simulationReport, destroyed>>
    /\ RunEffect(FALSE, 0)
    /\ AssistantEffect(TRUE, RESTART_DELAY_MS)
    /\ UNCHANGED <<settingsForm, feedback, pendingCalls>>
    /\ lastOp' = "restart"

(* Settings modal *)

dashVars == <<busVars, settings, isAudioUnlocked, simVars, destroyed, now>>

\* openSettingsModal and ngOnInit of the modal: the form is a clone of settings()
OpenSettingsModal ==
    /\ ~destroyed
    /\ settingsForm = NoForm
    /\ settingsForm' = settings
    /\ UNCHANGED <<dashVars, assistant, feedback, pendingCalls, burstRequests>>
    /\ RunEffect(FALSE, 0)
    /\ lastOp' = "openSettingsModal"

\* a handler of the open modal that leaves form in settingsForm
FormEdited(form, op) ==
    /\ ~destroyed
    /\ settingsForm # NoForm
    /\ settingsForm' = form
    /\ UNCHANGED <<dashVars, assistant, feedback, pendingCalls, burstRequests>>
    /\ RunEffect(FALSE, 0)
    /\ lastOp' = op

UpdateCautionThreshold(value) ==
    /\ settingsForm # NoForm
    /\ FormEdited(updateCautionThreshold(settingsForm, value), "updateCautionThreshold")

UpdateDangerThreshold(value) ==
    /\ settingsForm # NoForm
    /\ FormEdited(updateDangerThreshold(settingsForm, value), "updateDangerThreshold")

ToggleSoundAlerts ==
    /\ settingsForm # NoForm
    /\ FormEdited(toggleSoundAlerts(settingsForm), "toggleSoundAlerts")

\* onSave emits the form, the dashboard answers with handleSettingsSave
OnSave(storageOk) ==
    /\ settingsForm # NoForm
    /\ SettingsSaved(settingsForm, storageOk, "onSave")

\* onRestoreDefaults emits the default values
OnRestoreDefaults(storageOk) ==
    /\ settingsForm # NoForm
    /\ SettingsSaved(DEFAULTS, storageOk, "onRestoreDefaults")

(* Insight assistant *)

\* the period of the timer whose callback comes next
NextCallbackMs ==
    IF pendingRestart THEN RESTART_DELAY_MS
    ELSE IF activeTimers.scenario > 0 THEN SCENARIO_SIMULATION_INTERVAL_MS
    ELSE REALTIME_SIMULATION_INTERVAL_MS

\* a call of runAnalysis, by the debounce timeout or by another caller
AnalysisCalled(byTimer) ==
    /\ pendingCalls.insight < MaxInFlight
    /\ LET call == runAnalysis(IF byTimer
                                THEN [assistant EXCEPT !.analysisTimer = NoTimer]
                                ELSE assistant,
                                pendingCalls.insight)
       IN  /\ assistant' = call.assistant
           /\ pendingCalls' = [pendingCalls EXCEPT !.insight = call.calls]
           /\ burstRequests' = burstRequests + (IF byTimer /\ call.started THEN 1 ELSE 0)
           /\ lastOp' = IF call.started THEN "runAnalysis" ELSE "runAnalysisBusy"
    /\ UNCHANGED <<dashVars, settingsForm, feedback>>
    /\ RunEffect(FALSE, 0)

\* the callback of the debounce timeout
DebounceTimeout ==
    /\ DebounceFiresBefore(NextCallbackMs)
    /\ AnalysisCalled(TRUE)

\* runAnalysis is a public method of the component
RunAnalysisCall ==
    /\ ~destroyed
    /\ AnalysisCalled(FALSE)

\* a generateDispatchInsight promise settles, offset ms after the last
\* interval callback: the rest of runAnalysis, then the debounce effect
InsightSettled(outcome, offset) ==
    /\ pendingCalls.insight > 0
    /\ outcome = "insight" => assistant.messages < MaxInsights
    /\ LET a == insightSettled(assistant, outcome)
       IN  assistant' = [a EXCEPT !.analysisTimer =
                            IF destroyed THEN NoTimer
                            ELSE debounceEffect(a.analysisTimer, a.messages,
                                                outcome = "insight", offset)]
    /\ pendingCalls' = [pendingCalls EXCEPT !.insight = @ - 1]
    /\ UNCHANGED <<dashVars, settingsForm, feedback, burstRequests>>
    /\ RunEffect(FALSE, 0)
    /\ lastOp' = IF outcome = "error" THEN "insightFailed" ELSE "insightSettled"

(* Feedback form *)

HandleFeedbackInput(text) ==
    /\ ~destroyed
    /\ feedback' = [feedback EXCEPT !.feedbackMessage = text]
    /\ UNCHANGED <<dashVars, settingsForm, assistant, pendingCalls, burstRequests>>
    /\ RunEffect(FALSE, 0)
    /\ lastOp' = "handleFeedbackInput"

\* submitFeedback up to its await or its setTimeout; analysisEnabled is
\* settings().feedbackAnalysisEnabled, a field outside AppSettings that only
\* a stored item can carry
SubmitFeedback(analysisEnabled) ==
    /\ ~destroyed
    /\ IF ~isFeedbackFormValid(feedback) \/ feedback.isSubmittingFeedback
       THEN UNCHANGED <<feedback, pendingCalls>>
       ELSE /\ feedback' = [feedback EXCEPT !.isSubmittingFeedback = TRUE,
                                            !.analysisResult = NoResult,
                                            !.analysisError = NoError]
            /\ pendingCalls' = [pendingCalls EXCEPT !.feedback =
                                    IF analysisEnabled THEN "analyzeFeedback" ELSE "reset"]
    /\ UNCHANGED <<dashVars, settingsForm, assistant, burstRequests>>
    /\ RunEffect(FALSE, 0)
    /\ lastOp' = "submitFeedback"

\* the 500 ms timeout of a submission without analysis
FeedbackResetTimeout ==
    /\ pendingCalls.feedback = "reset"
    /\ feedback' = [feedback EXCEPT !.feedbackMessage = "",
                                    !.isSubmittingFeedback = FALSE]
    /\ pendingCalls' = [pendingCalls EXCEPT !.feedback = "none"]
    /\ UNCHANGED <<dashVars, settingsForm, assistant, burstRequests>>
    /\ RunEffect(FALSE, 0)
    /\ lastOp' = "feedbackReset"

\* the analyzeFeedback promise settles: the rest of submitFeedback
FeedbackSettled(ok) ==
    /\ pendingCalls.feedback = "analyzeFeedback"
    /\ feedback' = IF ok
                   THEN [feedback EXCEPT !.analysisResult = "analysis",
                                         !.feedbackMessage = "",
                                         !.isSubmittingFeedback = FALSE]
                   ELSE [feedback EXCEPT !.analysisError = "No se pudo analizar",
                                         !.isSubmittingFeedback = FALSE]
    /\ pendingCalls' = [pendingCalls EXCEPT !.feedback = "none"]
    /\ UNCHANGED <<dashVars, settingsForm, assistant, burstRequests>>
    /\ RunEffect(FALSE, 0)
    /\ lastOp' = IF ok THEN "feedbackSettled" ELSE "feedbackFailed"

Next ==
    \/ TickRandom
    \/ NgOnDestroy
    \/ \E sc \in Scenarios : StartScenario(sc)
    \/ RunScenarioStep
    \/ RestartTimeout
    \/ \E b \in BusIds : SelectBus(b)
    \/ UnlockAudio
    \/ \E s \in SettingsInputs, ok \in BOOLEAN : HandleSettingsSave(s, ok)

Spec == Init /\ [][Next]_vars

-----------------------------------------------------------------------------
(* The scenario player with its user-action log. The timer callbacks are    *)
(* scheduled by the browser: a callback that stays due does run.            *)

\* scenario ticks from startScenario to the end of the scenario, counted from
\* a read pointer and a clock
RECURSIVE TicksToEnd(_, _, _)
TicksToEnd(events, index, clock) ==
    LET next == IF EventDue(events, index, clock + 1) THEN index + 1 ELSE index
    IN  IF AllEventsProcessed(events, next) THEN 1
        ELSE 1 + TicksToEnd(events, next, clock + 1)

\* a scenario is started only when its ticks and the restart that follows it
\* (and a restart still pending) lie within the MaxTime callbacks explored
StartScenarioInTime(scenario) ==
    /\ now + (IF pendingRestart THEN 1 ELSE 0) + TicksToEnd(scenario, 0, 0) + 1
           <= MaxTime
    /\ StartScenario(scenario)

NextScenario ==
    \/ \E sc \in Scenarios : StartScenarioInTime(sc)
    \/ RunScenarioStep
    \/ RestartTimeout
    \/ TickRandom
    \/ \E type \in UserActionTypes : CaptureUserAction(type)
    \/ NgOnDestroy

SpecScenario ==
    /\ Init /\ [][NextScenario]_vars
    /\ WF_vars(RunScenarioStep)
    /\ WF_vars(RestartTimeout)

-----------------------------------------------------------------------------
(* Classifier check: the dashboard with arbitrary stored thresholds, in the *)
(* state reached by ngOnInit, startScenario of a one-event scenario         *)
(* PROXIMITY_ALERT(bus 1, d) and the scenario step that applies it          *)

\* threshold values around the defaults and at the ends of the range
ThresholdValues == {0, 1, 14, 15, 16, 29, 30, 31, 40}
StoredSettings ==
    {[cautionThreshold |-> p[1], dangerThreshold |-> p[2], soundAlertsEnabled |-> TRUE] :
        p \in {q \in ThresholdValues \X ThresholdValues : q[1] < q[2]}}

InitClassify ==
    \E st \in StoredSettings, d \in 1..MaxDistance :
        LET sc == <<ProximityAlert(1, 1, d)>>
            bs == [initialBuses(st, 0) EXCEPT ![1] = applyEvent(@, sc[1], st, 1)]
        IN  /\ settings = st
            /\ now = 1
            /\ buses = bs
            /\ selectedBus = 1
            /\ isAudioUnlocked = FALSE
            /\ simulationInterval = "none"
            /\ activeTimers = NoTimers
            /\ isSimulationRunning = TRUE
            /\ simulationScenario = sc
            /\ scenarioEventIndex = 1
            /\ simulationTime = 1
            /\ simulationUserActions = <<>>
            /\ simulationReport = [scenario |-> sc, actions |-> <<>>]
            /\ pendingRestart = TRUE
            /\ destroyed = FALSE
            /\ effectStatus = safetyStatus(bs, 1, st)
            /\ alertPlays = 0
            /\ dangerAlerts = 0
            /\ mutedInDanger = FALSE
            /\ stopEntries = [b \in BusIds |-> Len(bs[b].eventLog)]
            /\ stopAlerts = [b \in BusIds |-> IF b = 1 THEN 1 ELSE 0]
            /\ lastOp = "scenarioStep"
            /\ SideInit

NextClassify ==
    \/ \E b \in BusIds : SelectBus(b)
    \/ UnlockAudio
    \/ RestartTimeout
    \/ NgOnDestroy

SpecClassify == InitClassify /\ [][NextClassify]_vars

-----------------------------------------------------------------------------
(* The settings store and the settings modal over any stored item           *)

InitSettings == \E item \in StorageItems : InitLoaded(item)

NextSettings ==
    \/ OpenSettingsModal
    \/ \E value \in ThresholdEntries : UpdateCautionThreshold(value)
    \/ \E value \in ThresholdEntries : UpdateDangerThreshold(value)
    \/ ToggleSoundAlerts
    \/ \E ok \in BOOLEAN : OnSave(ok)
    \/ \E ok \in BOOLEAN : OnRestoreDefaults(ok)

SpecSettings == InitSettings /\ [][NextSettings]_vars

-----------------------------------------------------------------------------
(* The insight assistant beside the random simulator                        *)

NextAssistant ==
    \/ TickRandom
    \/ DebounceTimeout
    \/ RunAnalysisCall
    \/ \E outcome \in InsightOutcomes, offset \in CallbackOffsets :
           InsightSettled(outcome, offset)
    \/ NgOnDestroy

SpecAssistant == Init /\ [][NextAssistant]_vars

-----------------------------------------------------------------------------
(* The external calls of the dashboard: insight and feedback analysis       *)

NextCalls ==
    \/ RunAnalysisCall
    \/ \E outcome \in InsightOutcomes, offset \in CallbackOffsets :
           InsightSettled(outcome, offset)
    \/ \E text \in FeedbackTexts : HandleFeedbackInput(text)
    \/ \E enabled \in BOOLEAN : SubmitFeedback(enabled)
    \/ FeedbackResetTimeout
    \/ \E ok \in BOOLEAN : FeedbackSettled(ok)

SpecCalls == Init /\ [][NextCalls]_vars

-----------------------------------------------------------------------------
(* Claims *)

Selected == IF selectedBus = 0 THEN NoBus ELSE buses[selectedBus]
Stopped(bus) == bus # NoBus /\ bus.status = "detenido"
Classification == safetyStatus(buses, selectedBus, settings)

\* C1: for a selected vehicle that is detenido and thresholds c < g, the
\* classification is safe iff d <= c, caution iff c < d <= g and danger iff
\* d > g; with c = 15, g = 30 the distances 10, 28, 35 are safe, caution, danger
C1_Classify ==
    (Stopped(Selected) /\ settings.cautionThreshold < settings.dangerThreshold) =>
        LET d == Selected.curbDistanceCm
            c == settings.cautionThreshold
            g == settings.dangerThreshold
        IN  /\ (Classification = "safe") <=> (d <= c)
            /\ (Classification = "caution") <=> (c < d /\ d <= g)
            /\ (Classification = "danger") <=> (d > g)
            /\ (c = 15 /\ g = 30 /\ d = 10) => Classification = "safe"
            /\ (c = 15 /\ g = 30 /\ d = 28) => Classification = "caution"
            /\ (c = 15 /\ g = 30 /\ d = 35) => Classification = "danger"
            /\ (~destroyed) => effectStatus = Classification

C1_Witness ==
    /\ Stopped(Selected)
    /\ settings.cautionThreshold = 15 /\ settings.dangerThreshold = 30
    /\ Selected.curbDistanceCm = 35
    /\ effectStatus = "danger"
    /\ isAudioUnlocked


\* C2: during one uninterrupted period in which the classification stays
\* danger the alert is invoked at most once, whatever else happens in that
\* period (ticks, settings saves, opening the audio latch)
C2_AlertOncePerDangerPeriod == dangerAlerts <= 1

\* C3: once sound alerts were switched off while the classification is
\* danger, no task invokes the alert for as long as the classification stays
\* danger, also not the task that switches them on again
C3_NoRetroactiveAlert == mutedInDanger => alertPlays = 0

\* C4: every change of the classification from a non-danger value to danger
\* while sound alerts are enabled and the audio latch is open invokes the
\* alert, also when the vehicle was in danger before and had left it
C4_AlertOnEveryEntry ==
    [][(/\ effectStatus # "danger"
        /\ effectStatus' = "danger"
        /\ settings'.soundAlertsEnabled
        /\ isAudioUnlocked') => alertPlays' >= 1]_vars

DangerThenCautionThenDanger(log) ==
    /\ Len(log) >= 3
    /\ log[1].level = "danger" /\ log[2].level = "caution" /\ log[3].level = "danger"

C4_Witness ==
    /\ lastOp = "scenarioStep"
    /\ selectedBus = 1
    /\ effectStatus = "danger"
    /\ alertPlays = 1
    /\ DangerThenCautionThenDanger(buses[1].eventLog)
    /\ stopEntries[1] = Len(buses[1].eventLog)

\* C5: the alert is never invoked while soundAlertsEnabled is false or the
\* audio latch is closed, neither by the effect nor by unlockAudio
C5_AlertGated ==
    alertPlays > 0 => (settings.soundAlertsEnabled /\ isAudioUnlocked)

C5_Witness == alertPlays = 2 /\ lastOp = "unlockAudio" /\ isAudioUnlocked

\* the level the claims give to a distance: caution and danger are logged
LevelOf(d, st) ==
    IF d > st.dangerThreshold THEN "danger"
    ELSE IF d > st.cautionThreshold THEN "caution"
    ELSE "safe"

\* the step is a random tick that stops bus b, or a scenario step that applies
\* a PROXIMITY_ALERT to bus b, with a distance that is caution or danger
LoggedInStep(b) ==
    \/ /\ lastOp' = "tick"
       /\ buses[b].status = "llegando" /\ buses'[b].status = "detenido"
       /\ LevelOf(buses'[b].curbDistanceCm, settings) # "safe"
    \/ /\ lastOp' = "scenarioStep"
       /\ scenarioEventIndex' = scenarioEventIndex + 1
       /\ LET ev == simulationScenario[scenarioEventIndex + 1]
          IN  /\ ev.type = "PROXIMITY_ALERT"
              /\ ev.busId = buses[b].id
              /\ ev.payload.distance > 0
              /\ LevelOf(ev.payload.distance, settings) # "safe"

LogOrdered(log) ==
    \A i, j \in DOMAIN log : i < j => log[i].timestamp >= log[j].timestamp

\* C6: every eventLog has at most 5 entries and is ordered most-recent-first;
\* an entry logged to a full log becomes the head, the tail is removed and
\* the other entries keep their order
C6_EventLogBounded ==
    /\ [](\A b \in BusIds : /\ Len(buses[b].eventLog) <= 5
                             /\ LogOrdered(buses[b].eventLog))
    /\ [][\A b \in BusIds :
            (LoggedInStep(b) /\ Len(buses[b].eventLog) = 5) =>
                /\ Len(buses'[b].eventLog) = 5
                /\ buses'[b].eventLog[1].timestamp = now'
                /\ SubSeq(buses'[b].eventLog, 2, 5) = SubSeq(buses[b].eventLog, 1, 4)]_vars

C6_Witness ==
    \E b \in BusIds : Len(buses[b].eventLog) = 5 /\ stopEntries[b] > 5

NextStatus(s) ==
    CASE s = "en-ruta" -> "llegando"
      [] s = "llegando" -> "detenido"
      [] s = "detenido" -> "saliendo"
      [] s = "saliendo" -> "en-ruta"

\* C7: a random tick takes 1 from every stateTimer; a vehicle changes status
\* iff its decremented timer is <= 0, along en-ruta -> llegando -> detenido
\* -> saliendo -> en-ruta, with the timer reset to 4, 5, 3 or a value in 5..15;
\* the outcome is a function of the vehicle's own status and timer
C7_TickTransitions ==
    [][lastOp' = "tick" =>
        \A b \in BusIds :
            LET old == buses[b]
                new == buses'[b]
            IN  IF old.stateTimer - 1 <= 0
                THEN /\ new.status = NextStatus(old.status)
                     /\ CASE new.status = "llegando" -> new.stateTimer = 4
                          [] new.status = "detenido" -> new.stateTimer = 5
                          [] new.status = "saliendo" -> new.stateTimer = 3
                          [] new.status = "en-ruta" -> new.stateTimer \in 5..15
                ELSE /\ new.status = old.status
                     /\ new.stateTimer = old.stateTimer - 1]_vars

C7_Witness ==
    /\ lastOp = "tick"
    /\ buses[1].status = "en-ruta" /\ buses[1].stateTimer > 5
    /\ buses[2].status = "llegando"
    /\ buses[3].status = "saliendo"

\* C8: whenever the selected vehicle is not detenido the classification is
\* none, whatever its curbDistanceCm holds and whichever driver is in control
C8_NoneUnlessStopped ==
    (selectedBus # 0 /\ Selected.status # "detenido") =>
        /\ Classification = "none"
        /\ (~destroyed) => effectStatus = "none"

C8_Witness ==
    /\ selectedBus # 0 /\ Selected.status # "detenido"
    /\ Selected.curbDistanceCm > settings.dangerThreshold
    /\ simulationInterval = "scenario"
    /\ ~destroyed

\* C9: a random tick changes a vehicle's eventLog only when it moves the
\* vehicle from llegando to detenido; then one entry with the level of the new
\* distance is prepended if that level is caution or danger, none if safe
C9_TickLogging ==
    [][lastOp' = "tick" =>
        \A b \in BusIds :
            LET old == buses[b]
                new == buses'[b]
                level == LevelOf(new.curbDistanceCm, settings)
            IN  IF old.status = "llegando" /\ new.status = "detenido" /\ level # "safe"
                THEN /\ Len(new.eventLog) = (IF Len(old.eventLog) < 5
                                              THEN Len(old.eventLog) + 1 ELSE 5)
                     /\ new.eventLog[1].level = level
                     /\ new.eventLog[1].timestamp = now'
                     /\ Tail(new.eventLog) = Take(old.eventLog, 4)
                ELSE new.eventLog = old.eventLog]_vars

C9_Witness ==
    /\ lastOp = "tick"
    /\ buses[3].status = "detenido" /\ buses[3].stateTimer = 5
    /\ Len(buses[3].eventLog) = 1
    /\ buses[3].eventLog[1].level = "danger"
    /\ buses[3].eventLog[1].timestamp = now

\* C10 as claimed: at most one entry is added to a vehicle's eventLog during
\* one stop, whichever driver is in control
C10_OneEntryPerStop == \A b \in BusIds : stopEntries[b] <= 1

\* C10 as amended: during one stop at most one entry is added, plus one for
\* every PROXIMITY_ALERT event applied to the vehicle while it was stopped
C10_OneEntryPerStopOrAlert ==
    \A b \in BusIds : stopEntries[b] <= 1 + stopAlerts[b]

C10_Witness ==
    \E b \in BusIds : /\ buses[b].status = "detenido"
                       /\ stopEntries[b] = 3 /\ stopAlerts[b] = 2

-----------------------------------------------------------------------------
(* Scenario player *)

ScenarioLoaded == simulationScenario # NoScenario

\* C11: at the end of every scenario tick the read pointer is past the last
\* event or the event at the read pointer has a time greater than the clock:
\* all events due at a tick are applied within that tick
C11_AllDueEventsApplied ==
    (lastOp = "scenarioStep" /\ ScenarioLoaded) =>
        \/ scenarioEventIndex >= Len(simulationScenario)
        \/ simulationScenario[scenarioEventIndex + 1].time > simulationTime

\* C12: within one scenario run the clock goes up by exactly 1 per tick and
\* only by ticks, the read pointer never goes down, a tick applies at most the
\* event at the read pointer and then moves the pointer past it (list order,
\* each event at most once), and no event is applied at a clock value below
\* its time
C12_ScenarioOrder ==
    [][/\ lastOp' # "startScenario" =>
            /\ scenarioEventIndex' >= scenarioEventIndex
            /\ simulationTime' # simulationTime => lastOp' = "scenarioStep"
       /\ lastOp' = "scenarioStep" => simulationTime' = simulationTime + 1
       /\ (lastOp' = "scenarioStep" /\ ScenarioLoaded) =>
            /\ scenarioEventIndex' \in {scenarioEventIndex, scenarioEventIndex + 1}
            /\ scenarioEventIndex' = scenarioEventIndex => buses' = buses
            /\ scenarioEventIndex' = scenarioEventIndex + 1 =>
                  LET ev == simulationScenario[scenarioEventIndex + 1]
                  IN  /\ ev.time <= simulationTime'
                      /\ \A b \in BusIds :
                            buses'[b] # buses[b] => ev.busId = buses[b].id]_vars

C12_Witness ==
    /\ lastOp = "scenarioStep"
    /\ simulationScenario = ScenarioMixed
    /\ scenarioEventIndex = 3
    /\ simulationTime = 4
    /\ buses[2].status = "detenido" /\ buses[2].curbDistanceCm = 35

\* status, curbDistanceCm and stateTimer of the vehicles after initializeBuses
FreshBus(b) ==
    CASE b = 1 -> [status |-> "detenido", curbDistanceCm |-> 28, stateTimer |-> 5]
      [] b = 2 -> [status |-> "en-ruta", curbDistanceCm |-> 0, stateTimer |-> 8]
      [] b = 3 -> [status |-> "llegando", curbDistanceCm |-> 0, stateTimer |-> 3]

Readings(bus) ==
    [status |-> bus.status, curbDistanceCm |-> bus.curbDistanceCm,
     stateTimer |-> bus.stateTimer]

\* C13: a due event whose busId matches no vehicle changes no vehicle and
\* moves the read pointer on by one; with the events [unknown busId at time
\* 0, STATUS_CHANGE of bus 2 to llegando at time 1], after 2 ticks the pointer
\* is 2 and only bus 2 has changed status
C13_UnknownBusSkipped ==
    /\ [][(/\ lastOp' = "scenarioStep" /\ ScenarioLoaded
            /\ EventDue(simulationScenario, scenarioEventIndex, simulationTime')
            /\ \A b \in BusIds :
                  buses[b].id # simulationScenario[scenarioEventIndex + 1].busId)
           => /\ buses' = buses
              /\ scenarioEventIndex' = scenarioEventIndex + 1]_vars
    /\ []((/\ lastOp = "scenarioStep"
            /\ simulationScenario = ScenarioUnknownBus
            /\ simulationTime = 2)
           => /\ scenarioEventIndex = 2
              /\ Readings(buses[2]) = [FreshBus(2) EXCEPT !.status = "llegando"]
              /\ Readings(buses[1]) = FreshBus(1)
              /\ Readings(buses[3]) = FreshBus(3))

C13_Witness ==
    /\ lastOp = "scenarioStep"
    /\ simulationScenario = ScenarioUnknownBus
    /\ simulationTime = 2 /\ scenarioEventIndex = 2
    /\ buses[2].status = "llegando"

\* the scenario step applies the event ev to the vehicle at index b
AppliesTo(ev, b) ==
    /\ lastOp' = "scenarioStep" /\ ScenarioLoaded
    /\ scenarioEventIndex' = scenarioEventIndex + 1
    /\ ev = simulationScenario[scenarioEventIndex + 1]
    /\ FindBus(buses, ev.busId) = b

\* C14: applying a PROXIMITY_ALERT with a distance d >= 0 to a known vehicle
\* sets its curbDistanceCm to d and its status to detenido, and then adds one
\* entry to its eventLog iff d is caution or danger under the thresholds
C14_ProximityAlertApplied ==
    [][\A b \in BusIds : \A ev \in {simulationScenario[i] : i \in
                                       IF ScenarioLoaded THEN DOMAIN simulationScenario
                                       ELSE {}} :
          (/\ AppliesTo(ev, b)
           /\ ev.type = "PROXIMITY_ALERT"
           /\ "distance" \in DOMAIN ev.payload
           /\ ev.payload.distance >= 0)
          => /\ buses'[b].curbDistanceCm = ev.payload.distance
             /\ buses'[b].status = "detenido"
             /\ IF LevelOf(ev.payload.distance, settings) # "safe"
                THEN /\ buses'[b].eventLog[1].level =
                            LevelOf(ev.payload.distance, settings)
                     /\ buses'[b].eventLog[1].timestamp = now'
                     /\ Tail(buses'[b].eventLog) = Take(buses[b].eventLog, 4)
                ELSE buses'[b].eventLog = buses[b].eventLog]_vars

\* C15: applying a STATUS_CHANGE to a known vehicle sets its status to
\* payload.newStatus from any status, also off the cycle, and changes nothing
\* else of that vehicle and nothing of any other vehicle
C15_StatusChangeApplied ==
    [][\A b \in BusIds : \A ev \in {simulationScenario[i] : i \in
                                       IF ScenarioLoaded THEN DOMAIN simulationScenario
                                       ELSE {}} :
          (/\ AppliesTo(ev, b)
           /\ ev.type = "STATUS_CHANGE"
           /\ "newStatus" \in DOMAIN ev.payload)
          => /\ buses'[b].status = ev.payload.newStatus
             /\ buses'[b].stateTimer = buses[b].stateTimer
             /\ buses'[b].curbDistanceCm = buses[b].curbDistanceCm
             /\ buses'[b].eventLog = buses[b].eventLog
             /\ \A o \in BusIds \ {b} : buses'[o] = buses[o]]_vars

\* bus 1 taken from detenido to en-ruta, which is not an edge of the cycle
C15_Witness ==
    /\ lastOp = "scenarioStep"
    /\ simulationScenario = ScenarioMixed
    /\ scenarioEventIndex = 1
    /\ Readings(buses[1]) = [FreshBus(1) EXCEPT !.status = "en-ruta"]
    /\ Len(buses[1].eventLog) = 1

\* the largest time of a non-empty event list
MaxEventTime(events) ==
    CHOOSE t \in {events[i].time : i \in DOMAIN events} :
        \A i \in DOMAIN events : events[i].time <= t

\* the state left by the scenario step that ended a scenario with events;
\* simulationTime is then the number of ticks executed since startScenario
ScenarioJustEnded ==
    /\ lastOp = "scenarioStep" /\ ScenarioLoaded
    /\ simulationInterval # "scenario"
    /\ Len(simulationScenario) > 0

\* C16 as claimed: a scenario with events ends after at least
\* max(event.time) + 1 ticks
C16_TicksToCompletion ==
    ScenarioJustEnded => simulationTime >= MaxEventTime(simulationScenario) + 1

\* C16 as amended: a scenario with events ends after at least max(event.time)
\* ticks, and after at least one tick
C16_TicksAtLeastMaxTime ==
    ScenarioJustEnded =>
        /\ simulationTime >= MaxEventTime(simulationScenario)
        /\ simulationTime >= 1

C16_Witness ==
    /\ ScenarioJustEnded
    /\ simulationScenario = ScenarioAlerts
    /\ simulationTime = 6
    /\ scenarioEventIndex = 6

\* C18: in every reachable state at most one tick timer is active, the
\* random simulator's interval or a scenario's interval, and it is the one
\* whose handle the dashboard holds
C18_OneDriver ==
    /\ activeTimers.realtime + activeTimers.scenario <= 1
    /\ \A k \in {"realtime", "scenario"} :
          activeTimers[k] > 0 => simulationInterval = k

\* the delayed restart has run while a second scenario was playing
C18_Witness ==
    /\ lastOp = "restart"
    /\ activeTimers = [realtime |-> 0, scenario |-> 1]
    /\ simulationInterval = "scenario"
    /\ scenarioEventIndex = 0

\* C19: after ngOnDestroy no timer is pending, neither an interval nor the
\* delayed restart, and no callback runs: the vehicles, the selection, the
\* simulation flags and the timers stay as teardown left them
C19_NoCallbackAfterTeardown ==
    /\ [](destroyed => (~pendingRestart /\ activeTimers = NoTimers))
    /\ [][destroyed => UNCHANGED <<buses, selectedBus, simulationInterval,
                                    activeTimers, isSimulationRunning, now>>]_vars

\* C20: captureUserAction leaves the user-action log alone when no scenario
\* is running; while a scenario is running (its timer is active) it appends
\* one entry stamped with the simulation clock; between startScenario and
\* the scenario's end no other step touches the log
C20_UserActionsCaptured ==
    [][/\ lastOp' = "captureUserAction" =>
            /\ activeTimers.scenario > 0 =>
                  /\ Len(simulationUserActions') = Len(simulationUserActions) + 1
                  /\ SubSeq(simulationUserActions', 1, Len(simulationUserActions))
                         = simulationUserActions
                  /\ simulationUserActions'[Len(simulationUserActions')].timestamp
                         = simulationTime
            /\ (activeTimers.scenario = 0 /\ ~isSimulationRunning) =>
                  simulationUserActions' = simulationUserActions
       /\ lastOp' \notin {"captureUserAction", "startScenario"} =>
            simulationUserActions' = simulationUserActions]_vars

\* the pointer has passed the last event, the scenario timer is stopped and
\* the report holds the scenario and the user actions captured up to the end
ScenarioEnded ==
    /\ ScenarioLoaded
    /\ AllEventsProcessed(simulationScenario, scenarioEventIndex)
    /\ activeTimers.scenario = 0
    /\ simulationReport # NoReport
    /\ simulationReport.scenario = simulationScenario

C28_StaleRestartHarmless ==
    /\ [](activeTimers.scenario > 0 => isSimulationRunning)
    /\ [][(lastOp' = "restart" /\ activeTimers.scenario > 0) =>
            buses' = buses]_vars

\* C27: the audio latch is false initially, true after the first unlockAudio
\* and never false again, across scenario starts, scenario ends and resets;
\* an unlockAudio call with the latch open changes nothing and plays nothing
C27_AudioLatch ==
    /\ ~isAudioUnlocked
    /\ [][isAudioUnlocked => isAudioUnlocked']_vars
    /\ [][lastOp' = "unlockAudio" =>
            /\ isAudioUnlocked'
            /\ isAudioUnlocked =>
                  /\ alertPlays' = 0
                  /\ UNCHANGED <<busVars, settings, simVars, destroyed, now,
                                 effectStatus, dangerAlerts, mutedInDanger>>]_vars

\* a second unlockAudio while the selected vehicle is in danger, sound enabled
C27_Witness ==
    /\ lastOp = "unlockAudio"
    /\ isAudioUnlocked
    /\ effectStatus = "danger" /\ settings.soundAlertsEnabled
    /\ alertPlays = 0
    /\ pendingRestart

\* the selected vehicle is stopped beyond the danger threshold
SelectedInDanger == safetyStatusOf(Selected, settings) = "danger"

\* C29: the alert follows the selected vehicle only: a timer step invokes the
\* alert only when the selected vehicle enters danger, whatever the other
\* vehicles do; selectBus (sound enabled, latch open) invokes it once when the
\* newly selected vehicle is in danger and the previous one was not, and not
\* at all otherwise, in particular between two vehicles in danger
C29_AlertFollowsSelection ==
    [][/\ lastOp' \in {"tick", "scenarioStep"} =>
            (alertPlays' > 0 => (SelectedInDanger' /\ ~SelectedInDanger))
       /\ (/\ lastOp' = "userEvent" /\ selectedBus' # selectedBus
           /\ settings.soundAlertsEnabled /\ isAudioUnlocked) =>
            alertPlays' = (IF SelectedInDanger' /\ ~SelectedInDanger THEN 1 ELSE 0)]_vars

\* the selection has moved from bus 1 to bus 3, both in danger, in silence
C29_Witness ==
    /\ lastOp = "userEvent"
    /\ selectedBus = 3
    /\ safetyStatusOf(buses[1], settings) = "danger"
    /\ safetyStatusOf(buses[3], settings) = "danger"
    /\ settings.soundAlertsEnabled /\ isAudioUnlocked
    /\ alertPlays = 0 /\ dangerAlerts = 1

\* what C21 compares of a vehicle: status, distance and the levels of its log
VehicleState(bus) ==
    [status |-> bus.status, curbDistanceCm |-> bus.curbDistanceCm,
     levels |-> [i \in DOMAIN bus.eventLog |-> bus.eventLog[i].level]]

\* the vehicles after k ticks of a scenario played alone on a fresh
\* dashboard under the thresholds st: <<buses, read pointer>>
RECURSIVE Replay(_, _, _)
Replay(events, k, st) ==
    IF k = 0 THEN <<initialBuses(st, 0), 0>>
    ELSE LET before == Replay(events, k - 1, st)
             bs == before[1]
             index == before[2]
             due == EventDue(events, index, k)
             found == IF due THEN FindBus(bs, events[index + 1].busId) ELSE 0
         IN  <<IF found # 0
               THEN [bs EXCEPT ![found] = applyEvent(@, events[index + 1], st, k)]
               ELSE bs,
               IF due THEN index + 1 ELSE index>>

\* C21: at every tick of a scenario the vehicles (status, curbDistanceCm,
\* event-log levels) are those of the same scenario played alone from a fresh
\* dashboard under the same thresholds, whatever the dashboard did before
\* startScenario (random ticks, an earlier scenario, its pending restart)
C21_ReplayIndependent ==
    (lastOp = "scenarioStep" /\ ScenarioLoaded) =>
        \A b \in BusIds :
            VehicleState(buses[b]) =
                VehicleState(Replay(simulationScenario, simulationTime, settings)[1][b])

\* the third tick of a scenario started while the restart of an earlier
\* scenario was pending; the restart has fired since
C21_Witness ==
    /\ lastOp = "scenarioStep"
    /\ simulationScenario = ScenarioMixed
    /\ simulationTime = 3
    /\ now >= 5
    /\ ~isSimulationRunning
    /\ buses[3].status = "llegando"

-----------------------------------------------------------------------------
(* Random simulator in the long run *)

\* the dashboard left to the random simulator: its ticks, the selection of
\* a vehicle and teardown
NextRandom ==
    \/ TickRandom
    \/ \E b \in BusIds : SelectBus(b)
    \/ NgOnDestroy

SpecRandom == Init /\ [][NextRandom]_vars

MaxOf(S) == CHOOSE x \in S : \A y \in S : y <= x

\* the largest number of random ticks, over all draws, until a tick takes the
\* vehicle from llegando to detenido; fuel + 1 if some run of fuel ticks does
\* not
RECURSIVE TicksToStop(_, _)
TicksToStop(bus, fuel) ==
    IF fuel = 0 THEN 1
    ELSE 1 + MaxOf({IF bus.status = "llegando" /\ after.status = "detenido" THEN 0
                    ELSE TicksToStop(after, fuel - 1) :
                        after \in updateBusOutcomes(bus, settings, now)})

\* C30: while the random simulator is in control every stateTimer is at least
\* 1 between ticks and, ticks going on, every vehicle enters detenido within
\* at most 27 ticks from any reachable state, so that it is detenido again
\* and again and stays in no status for ever
C30_StopsWithin27 ==
    activeTimers.realtime > 0 =>
        \A b \in BusIds :
            /\ buses[b].stateTimer >= 1
            /\ TicksToStop(buses[b], 27) <= 27

\* a vehicle has just started a stop: its next one begins 26 ticks later at
\* the latest (5 stopped, 3 departing, 14 en route, 4 arriving)
C30_Witness ==
    /\ lastOp = "tick"
    /\ activeTimers.realtime > 0
    /\ \E b \in BusIds :
          /\ buses[b].status = "detenido" /\ buses[b].stateTimer = 5
          /\ TicksToStop(buses[b], 27) = 26

-----------------------------------------------------------------------------
(* Settings store and settings modal *)

\* C22: the settings the dashboard consumes keep cautionThreshold strictly
\* below dangerThreshold in every reachable state: as loaded from storage and
\* after every sequence of updateCautionThreshold, updateDangerThreshold,
\* onRestoreDefaults and saveSettings.
C22_ThresholdOrder == settings.cautionThreshold < settings.dangerThreshold

\* C23: an update that sets dangerThreshold to v while the caution threshold
\* is c leaves dangerThreshold = v, and cautionThreshold = v - 1 when v <= c
\* and = c when v > c; in the settings form (updateDangerThreshold) and in
\* saveSettings (a save that stores the thresholds c and v of the form).
C23_DangerUpdateRepairs ==
    [][/\ lastOp' = "updateDangerThreshold" =>
            \E v \in ThresholdEntries :
                LET c == settingsForm.cautionThreshold
                IN  /\ settingsForm'.dangerThreshold = v
                    /\ settingsForm'.cautionThreshold = IF v <= c THEN v - 1 ELSE c
       /\ (lastOp' = "onSave" /\ settings' # settings) =>
            LET c == settingsForm.cautionThreshold
                v == settingsForm.dangerThreshold
            IN  /\ settings'.dangerThreshold = v
                /\ settings'.cautionThreshold = IF v <= c THEN v - 1 ELSE c]_vars

-----------------------------------------------------------------------------
(* Insight assistant and external calls *)

\* the tick at which an event log last changed, 0 when none has changed
\* since the dashboard was loaded
LogStamps ==
    UNION {{buses[b].eventLog[i].timestamp : i \in DOMAIN buses[b].eventLog} :
              b \in BusIds}
LastLogChange == MaxOf({0} \cup LogStamps)

\* the time without a change of an event log, as of the last callback of the
\* realtime interval
QuietMs == (now - LastLogChange) * REALTIME_SIMULATION_INTERVAL_MS

\* C24: after a burst of event-log changes and a quiet period of the
\* debounce interval exactly one insight request has been started, the first
\* burst after the dashboard was loaded included, and none is started before
\* the quiet period has passed since the last change.
C24_Debounced ==
    /\ (LastLogChange > 0 /\ ~destroyed /\ QuietMs >= DEBOUNCE_MS) => burstRequests = 1
    /\ burstRequests >= 1 => QuietMs + REALTIME_SIMULATION_INTERVAL_MS > DEBOUNCE_MS

\* C25: at most one insight request is in flight: a call of runAnalysis while
\* a request is pending starts none, a call starts one only when none is
\* pending, and every completion clears isLoading.
C25_OneInFlight ==
    /\ [](/\ pendingCalls.insight <= 1
          /\ assistant.isLoading <=> pendingCalls.insight = 1)
    /\ [][/\ lastOp' = "runAnalysisBusy" =>
                /\ pendingCalls.insight > 0
                /\ pendingCalls' = pendingCalls
          /\ lastOp' = "runAnalysis" =>
                /\ pendingCalls.insight = 0
                /\ pendingCalls'.insight = 1
          /\ lastOp' \in {"insightSettled", "insightFailed"} =>
                ~assistant'.isLoading]_vars

\* a call of runAnalysis has found a request in flight that an earlier call
\* could start after the completion of another
C25_Witness ==
    /\ lastOp = "runAnalysisBusy"
    /\ assistant.messages >= 1
    /\ pendingCalls.insight = 1

\* C26: a failed external call is not retried and leaves a visible error:
\* after a failed feedback analysis analysisError is set, the form content is
\* kept and isSubmittingFeedback is false; after a failed insight request the
\* error of the assistant is set; the tick timer keeps running.
C26_FailuresSurfaced ==
    [][/\ lastOp' = "feedbackFailed" =>
            /\ feedback'.analysisError # NoError
            /\ feedback'.feedbackMessage = feedback.feedbackMessage
            /\ ~feedback'.isSubmittingFeedback
            /\ pendingCalls'.feedback = "none"
       /\ lastOp' = "insightFailed" =>
            /\ assistant'.error # NoError
            /\ pendingCalls'.insight = pendingCalls.insight - 1
            /\ assistant'.analysisTimer = assistant.analysisTimer
       /\ lastOp' \in {"feedbackFailed", "insightFailed"} =>
            /\ activeTimers' = activeTimers
            /\ activeTimers.realtime > 0]_vars

=============================================================================
